---- MODULE Spec2Model ----
(***************************************************************************)
(* Model of the AT24C256 I2C EEPROM driver and its settings layer          *)
(* (Examples/i2c_eeprom_AT24C256/main.c).                                  *)
(*                                                                         *)
(* The driver is one sequential program: pc is its position, stack the     *)
(* return positions of the calls in progress.  One step of the driver is   *)
(* one I2C transaction (or the code between two transactions).  The        *)
(* device is the environment: it stores the cells, runs its internal       *)
(* write cycle after a data write, and refuses to acknowledge while busy.  *)
(***************************************************************************)
EXTENDS Integers, Sequences, FiniteSets, TLC

\* ------------------------------------------------------------------------
\* Program constants
\* ------------------------------------------------------------------------
PAGE_SIZE == 64
CAPACITY == 32768
SETTINGS_ADDR == 0
MAGIC_CODE == 42330
SizeofSystemSettings == 40

\* ------------------------------------------------------------------------
\* Bounds of the model
\* ------------------------------------------------------------------------
\* longest buffer a caller hands to eeprom_write_buffer / eeprom_read_buffer
MaxLen == 70
\* failed probes counted per call of eeprom_wait_ready (the count saturates)
MaxProbes == 2
\* API calls per behaviour
MaxCalls == 2

VARIABLES
    pc,               \* position of the driver
    stack,            \* return positions of the calls in progress
    cur,              \* the API call in progress (or the last one, when idle)
    prev,             \* the API call completed before cur
    calls,            \* number of API calls made so far
    loaded,           \* cur was called with the settings loaded: settings_init had
                      \* returned, followed by settings calls and field updates only
    cells0,           \* the device's cells when cur was called
    addr,             \* eeprom_write_buffer: addr
    data,             \* eeprom_write_buffer: data
    offset,           \* eeprom_write_buffer: offset
    remaining_len,    \* eeprom_write_buffer: remaining_len
    rd_addr,          \* eeprom_read_buffer / eeprom_read_byte: address argument
    buf,              \* eeprom_read_buffer: the caller's buffer
    mem_addr,         \* eeprom_write_byte: mem_addr
    wr_val,           \* eeprom_write_byte: data
    rx_data,          \* eeprom_read_byte: rx_data (its return value)
    new_val,          \* eeprom_update_byte: new_val
    probes,           \* eeprom_wait_ready: failed probes of this call (saturating)
    dummy,            \* eeprom_wait_ready: the byte its uninitialised dummy holds
    current_settings, \* the global SystemSettings, as its 40 serialized bytes
    bus,              \* the transactions the current API call has issued
    faulted,          \* a data transaction of the current API call was not acknowledged
    cells,            \* device: the cells written so far (address -> byte)
    fill,             \* device: content of every cell never written
    dev_ptr,          \* device: internal address counter
    busy,             \* device: internal write cycle in progress
    present,          \* device: responds to its address at all
    noisy             \* bus: transfers may be disturbed

driver == <<pc, stack, cur, prev, calls, loaded, cells0, addr, data, offset, remaining_len,
            rd_addr, buf, mem_addr, wr_val, rx_data, new_val, probes, dummy,
            current_settings, bus, faulted>>
device == <<cells, fill, dev_ptr, busy, present, noisy>>
vars == <<driver, device>>

Min(a, b) == IF a < b THEN a ELSE b

\* ------------------------------------------------------------------------
\* The device (AT24C256C): 512 pages of 64 bytes, 15 address bits
\* ------------------------------------------------------------------------
Cell(a) == IF a \in DOMAIN cells THEN cells[a] ELSE fill

\* the cell the i-th data byte (i = 0, 1, ...) of a write at address a lands in:
\* the address counter rolls over inside the page
PageWrap(a, i) == (a \div PAGE_SIZE) * PAGE_SIZE + (((a % PAGE_SIZE) + i) % PAGE_SIZE)

\* the memory address the device decodes from the two address bytes
DevAddr(hi, lo) == ((hi * 256) + lo) % CAPACITY

DevWrite(c, a, d) ==
    LET hit == {PageWrap(a, i - 1) : i \in 1..Len(d)}
        last(x) == CHOOSE i \in 1..Len(d) :
                      /\ PageWrap(a, i - 1) = x
                      /\ \A j \in (i + 1)..Len(d) : PageWrap(a, j - 1) # x
    IN  [x \in (DOMAIN c) \cup hit |-> IF x \in hit THEN d[last(x)] ELSE c[x]]

\* sequential read: the address counter rolls over at the end of the memory
DevRead(p, n) == [i \in 1..n |-> Cell(((p + i) - 1) % CAPACITY)]

\* the device acknowledges its address unless it is absent, busy with a
\* write cycle, or the transfer is disturbed (g)
Ack(g) == present /\ ~busy /\ ~g

\* the disturbances the bus can add to one transfer
Glitch == IF noisy THEN BOOLEAN ELSE {FALSE}

\* ------------------------------------------------------------------------
\* SystemSettings: int32 motor_offset (bytes 1..4), uint16 magic (5..6),
\* uint8 wifi_ssid[32] (7..38), uint8 volume (39), uint8 checksum (40);
\* little-endian, as the Cortex-M0+ lays it out
\* ------------------------------------------------------------------------
magic(s) == s[5] + (256 * s[6])
checksum(s) == s[SizeofSystemSettings]
volume(s) == s[39]
wifi_ssid(s) == SubSeq(s, 7, 38)
motor_offset(s) == SubSeq(s, 1, 4)

RECURSIVE SumBytes(_, _)
SumBytes(s, n) == IF n = 0 THEN 0 ELSE (SumBytes(s, n - 1) + s[n]) % 256

\* the sum over the whole record, its checksum byte included
calc_checksum_whole(s) == SumBytes(s, SizeofSystemSettings)

\* the loop of calc_checksum: an 8-bit sum over the bytes before the last
calc_checksum(s) == SumBytes(s, SizeofSystemSettings - 1)

\* "MyWifi" and its terminator, as strcpy copies them
DefaultSsid == <<77, 121, 87, 105, 102, 105, 0>>

\* the defaults without the assignment of motor_offset
LoadDefaults_keep_offset(s) ==
    [i \in 1..SizeofSystemSettings |->
        IF i = 5 THEN MAGIC_CODE % 256
        ELSE IF i = 6 THEN MAGIC_CODE \div 256
        ELSE IF i \in 7..13 THEN <<77, 121, 87, 105, 102, 105, 0>>[i - 6]
        ELSE IF i = 39 THEN 50
        ELSE s[i]]

\* the four assignments of settings_init's repair branch, applied to s
LoadDefaults(s) ==
    [i \in 1..SizeofSystemSettings |->
        IF i \in 1..4 THEN 0
        ELSE IF i = 5 THEN MAGIC_CODE % 256
        ELSE IF i = 6 THEN MAGIC_CODE \div 256
        ELSE IF i \in 7..(6 + Len(DefaultSsid)) THEN DefaultSsid[i - 6]
        ELSE IF i = 39 THEN 50
        ELSE s[i]]

\* the record written as it is, its checksum not recomputed
WithChecksum_stale(s) == s

\* current_settings.checksum = calc_checksum(&current_settings)
WithChecksum(s) == [s EXCEPT ![SizeofSystemSettings] = calc_checksum(s)]

IsValid(s) == magic(s) = MAGIC_CODE /\ checksum(s) = calc_checksum(s)

\* ------------------------------------------------------------------------
\* Driver helpers
\* ------------------------------------------------------------------------
\* uint16_t arithmetic of the address arguments
U16(x) == x % 65536

\* the address frame with the low byte first
AddrBytes_little_endian(a) == <<a % 256, (a \div 256) % 256>>

\* buf[0], buf[1] of the address frame
AddrBytes(a) == <<(a \div 256) % 256, a % 256>>

\* the space taken modulo the page size: none at the start of a page
space_in_page_modulo(a) == (PAGE_SIZE - (a % PAGE_SIZE)) % PAGE_SIZE

\* space_in_page = PAGE_SIZE - (addr % PAGE_SIZE)
space_in_page(a) == PAGE_SIZE - (a % PAGE_SIZE)

\* chunk_size with the page alignment forgotten: up to a whole page per chunk
chunk_size_unaligned(rem, a) == IF rem < PAGE_SIZE THEN rem ELSE PAGE_SIZE

\* the whole remainder as one chunk
chunk_size_whole(rem, a) == rem

\* chunk_size = (remaining_len < space_in_page) ? remaining_len : space_in_page
chunk_size(rem, a) == IF rem < space_in_page(a) THEN rem ELSE space_in_page(a)

\* the chunk taken from the start of data, whatever the offset
chunk_data_no_offset(d, off, c) == SubSeq(d, 1, c)

\* &data[offset], chunk_size: the bytes handed to _eeprom_write_page_raw
chunk_data(d, off, c) == SubSeq(d, off + 1, off + c)

\* i2c_write_blocking: the transaction is recorded; an acknowledged frame
\* of two address bytes loads the address counter and, when data follow,
\* stores them and starts the write cycle.  A shorter frame stores nothing.
I2CWrite(bytes, nostop, ok) ==
    /\ bus' = Append(bus, [rw |-> "W", bytes |-> bytes, n |-> Len(bytes),
                           nostop |-> nostop, ack |-> ok, during |-> busy])
    /\ IF ok /\ Len(bytes) >= 2
       THEN LET a == DevAddr(bytes[1], bytes[2])
                d == SubSeq(bytes, 3, Len(bytes))
            IN  /\ cells' = IF Len(d) > 0 THEN DevWrite(cells, a, d) ELSE cells
                /\ dev_ptr' = PageWrap(a, Len(d))
                /\ busy' = (Len(d) > 0)
       ELSE UNCHANGED <<cells, dev_ptr, busy>>
    /\ UNCHANGED <<fill, present, noisy>>

\* i2c_read_blocking of n bytes from the address counter onwards
I2CRead(n, ok) ==
    /\ bus' = Append(bus, [rw |-> "R", bytes |-> <<>>, n |-> n,
                           nostop |-> FALSE, ack |-> ok, during |-> busy])
    /\ dev_ptr' = IF ok THEN (dev_ptr + n) % CAPACITY ELSE dev_ptr
    /\ UNCHANGED <<cells, fill, busy, present, noisy>>

\* what the destination of i2c_read_blocking holds afterwards: the bytes
\* received, or its old content when the device does not acknowledge
Received(old, n, ok) == IF ok THEN DevRead(dev_ptr, n) ELSE old

Return == pc' = Head(stack) /\ stack' = Tail(stack)

\* ------------------------------------------------------------------------
\* The callers: inputs of the API calls
\* ------------------------------------------------------------------------
\* the data of a call: a counting pattern, and main's 0xAB for a single byte
Data(n) == IF n = 1 THEN <<171>> ELSE [i \in 1..n |-> i % 256]

WriteBufferArgs == {<<60, 6>>, <<62, 5>>, <<62, MaxLen>>, <<0, 0>>,
                    <<SETTINGS_ADDR + SizeofSystemSettings, 1>>,
                    <<CAPACITY - 4, 4>>, <<CAPACITY - 2, 5>>}
ReadBufferArgs == {<<SETTINGS_ADDR, SizeofSystemSettings>>, <<60, 6>>, <<62, 5>>,
                   <<SETTINGS_ADDR + SizeofSystemSettings, 1>>,
                   <<62, MaxLen>>, <<CAPACITY - 4, 4>>, <<CAPACITY - 2, 5>>}
ByteAddrs == {SETTINGS_ADDR + SizeofSystemSettings, CAPACITY - 1, CAPACITY}
ByteVals == {0, 171}
BufInit == {170}
DummyBytes == {0, 255}
AppVolume == 80

NoCall == [op |-> "none", a |-> 0, d |-> <<>>, n |-> 0]

\* the operations on the settings record
SettingsOps == {"settings_save", "settings_init", "set_volume"}

\* entry of an API call from the application
Begin(name, a, d, n) ==
    /\ pc = "idle"
    /\ calls < MaxCalls
    /\ calls' = calls + 1
    /\ cur' = [op |-> name, a |-> a, d |-> d, n |-> n]
    /\ prev' = [call |-> cur, faulted |-> faulted]
    /\ loaded' = (~faulted /\ (cur.op = "settings_init"
                                \/ (loaded /\ cur.op \in SettingsOps)))
    /\ cells0' = cells
    /\ bus' = <<>>
    /\ faulted' = FALSE

\* the arguments and locals of the functions the call is going to run; the
\* others are dead
CallFrame(a, d, ra, b, ma, v) ==
    /\ addr' = a
    /\ data' = d
    /\ offset' = 0
    /\ remaining_len' = Len(d)
    /\ rd_addr' = ra
    /\ buf' = b
    /\ mem_addr' = ma
    /\ wr_val' = v
    /\ new_val' = v
    /\ rx_data' = 0
    /\ probes' = 0
    /\ dummy' \in DummyBytes

wb_locals == <<addr, data, offset, remaining_len>>
rd_locals == <<rd_addr, buf, rx_data>>
byte_locals == <<mem_addr, wr_val, new_val, dummy>>

\* ------------------------------------------------------------------------
\* eeprom_wait_ready
\* ------------------------------------------------------------------------
\* the loop with a retry limit: it gives up after MaxProbes failed probes
WaitReadyStep_bounded(ok) ==
    IF ok \/ probes = MaxProbes
    THEN /\ I2CWrite(<<dummy>>, FALSE, ok)
         /\ probes' = 0
         /\ Return
    ELSE /\ probes' = Min(probes + 1, MaxProbes)
         /\ UNCHANGED <<pc, stack, bus, device>>

\* the probe sent once, its result ignored
WaitReadyStep_once(ok) ==
    /\ I2CWrite(<<dummy>>, FALSE, ok)
    /\ probes' = 0
    /\ Return

\* one pass of the do-while loop: a one-byte write of the uninitialised
\* dummy; on an acknowledge the loop ends and the function returns,
\* otherwise it sleeps and tries again
WaitReadyStep(ok) ==
    IF ok
    THEN /\ I2CWrite(<<dummy>>, FALSE, TRUE)
         /\ probes' = 0
         /\ Return
    ELSE /\ probes' = Min(probes + 1, MaxProbes)
         /\ UNCHANGED <<pc, stack, bus, device>>

eeprom_wait_ready ==
    /\ pc = "wait_ready"
    /\ \E g \in Glitch : WaitReadyStep(Ack(g))
    /\ UNCHANGED <<cur, prev, calls, loaded, cells0, wb_locals, rd_locals, byte_locals,
                   current_settings, faulted>>

\* ------------------------------------------------------------------------
\* eeprom_write_buffer and _eeprom_write_page_raw
\* ------------------------------------------------------------------------
\* _eeprom_write_page_raw up to its call of eeprom_wait_ready
WritePageRaw(a, d, ok) ==
    /\ I2CWrite(AddrBytes(a) \o d, FALSE, ok)
    /\ faulted' = (faulted \/ ~ok)
    /\ probes' = 0
    /\ pc' = "wait_ready"

\* the loop test and, when data remain, the page write of the next chunk
eeprom_write_buffer_loop ==
    /\ pc = "wb_loop"
    /\ IF remaining_len > 0
       THEN /\ \E g \in Glitch :
                 WritePageRaw(addr,
                              chunk_data(data, offset, chunk_size(remaining_len, addr)),
                              Ack(g))
            /\ stack' = <<"wb_advance">> \o stack
       ELSE /\ Return
            /\ UNCHANGED <<bus, faulted, probes, device>>
    /\ UNCHANGED <<cur, prev, calls, loaded, cells0, wb_locals, rd_locals, byte_locals, current_settings>>

\* addr += chunk_size; offset += chunk_size; remaining_len -= chunk_size
eeprom_write_buffer_advance ==
    /\ pc = "wb_advance"
    /\ LET c == chunk_size(remaining_len, addr)
       IN  /\ addr' = U16(addr + c)
           /\ offset' = offset + c
           /\ remaining_len' = remaining_len - c
    /\ pc' = "wb_loop"
    /\ UNCHANGED <<stack, cur, prev, calls, loaded, cells0, data, rd_locals, byte_locals, probes,
                   current_settings, bus, faulted, device>>

call_eeprom_write_buffer ==
    \E arg \in WriteBufferArgs :
        /\ Begin("eeprom_write_buffer", arg[1], Data(arg[2]), arg[2])
        /\ CallFrame(arg[1], Data(arg[2]), 0, <<>>, 0, 0)
        /\ pc' = "wb_loop"
        /\ stack' = <<"idle">>
        /\ UNCHANGED <<current_settings, device>>

\* ------------------------------------------------------------------------
\* eeprom_read_buffer
\* ------------------------------------------------------------------------
\* the dummy write ended by a stop condition
eeprom_read_buffer_addr_stop ==
    /\ pc = "rb_addr"
    /\ \E g \in Glitch :
          /\ I2CWrite(AddrBytes(rd_addr), FALSE, Ack(g))
          /\ faulted' = (faulted \/ ~Ack(g))
    /\ pc' = "rb_read"
    /\ UNCHANGED <<stack, cur, prev, calls, loaded, cells0, wb_locals, rd_locals, byte_locals, probes,
                   current_settings>>

\* the dummy write of the two address bytes, nostop = true
eeprom_read_buffer_addr ==
    /\ pc = "rb_addr"
    /\ \E g \in Glitch :
          /\ I2CWrite(AddrBytes(rd_addr), TRUE, Ack(g))
          /\ faulted' = (faulted \/ ~Ack(g))
    /\ pc' = "rb_read"
    /\ UNCHANGED <<stack, cur, prev, calls, loaded, cells0, wb_locals, rd_locals, byte_locals, probes,
                   current_settings>>

\* the read of len bytes into buf
eeprom_read_buffer_read ==
    /\ pc = "rb_read"
    /\ \E g \in Glitch :
          /\ I2CRead(Len(buf), Ack(g))
          /\ buf' = Received(buf, Len(buf), Ack(g))
          /\ faulted' = (faulted \/ ~Ack(g))
    /\ Return
    /\ UNCHANGED <<cur, prev, calls, loaded, cells0, wb_locals, rd_addr, rx_data, byte_locals, probes,
                   current_settings>>

call_eeprom_read_buffer ==
    \E arg \in ReadBufferArgs, b \in BufInit :
        /\ Begin("eeprom_read_buffer", arg[1], <<>>, arg[2])
        /\ CallFrame(0, <<>>, arg[1], [i \in 1..arg[2] |-> b], 0, 0)
        /\ pc' = "rb_addr"
        /\ stack' = <<"idle">>
        /\ UNCHANGED <<current_settings, device>>

\* ------------------------------------------------------------------------
\* eeprom_write_byte, eeprom_read_byte, eeprom_update_byte
\* ------------------------------------------------------------------------
\* the three-byte frame alone: the function returns without the wait
eeprom_write_byte_no_wait ==
    /\ pc = "wbyte"
    /\ \E g \in Glitch :
          /\ I2CWrite(AddrBytes(mem_addr) \o <<wr_val>>, FALSE, Ack(g))
          /\ faulted' = (faulted \/ ~Ack(g))
    /\ probes' = 0
    /\ Return
    /\ UNCHANGED <<cur, prev, calls, loaded, cells0, wb_locals, rd_locals, byte_locals,
                   current_settings>>

\* the three-byte frame, then eeprom_wait_ready
eeprom_write_byte ==
    /\ pc = "wbyte"
    /\ \E g \in Glitch :
          /\ I2CWrite(AddrBytes(mem_addr) \o <<wr_val>>, FALSE, Ack(g))
          /\ faulted' = (faulted \/ ~Ack(g))
    /\ probes' = 0
    /\ pc' = "wait_ready"
    /\ UNCHANGED <<stack, cur, prev, calls, loaded, cells0, wb_locals, rd_locals, byte_locals,
                   current_settings>>

call_eeprom_write_byte ==
    \E a \in ByteAddrs, v \in ByteVals :
        /\ Begin("eeprom_write_byte", a, <<v>>, 1)
        /\ CallFrame(0, <<>>, 0, <<>>, a, v)
        /\ pc' = "wbyte"
        /\ stack' = <<"idle">>
        /\ UNCHANGED <<current_settings, device>>

\* rx_data = 0 and the dummy write of the two address bytes, nostop = true
eeprom_read_byte_addr ==
    /\ pc = "rbyte_addr"
    /\ rx_data' = 0
    /\ \E g \in Glitch :
          /\ I2CWrite(AddrBytes(rd_addr), TRUE, Ack(g))
          /\ faulted' = (faulted \/ ~Ack(g))
    /\ pc' = "rbyte_read"
    /\ UNCHANGED <<stack, cur, prev, calls, loaded, cells0, wb_locals, rd_addr, buf, byte_locals, probes,
                   current_settings>>

\* the read of one byte into rx_data, which is returned
eeprom_read_byte_read ==
    /\ pc = "rbyte_read"
    /\ \E g \in Glitch :
          /\ I2CRead(1, Ack(g))
          /\ rx_data' = Received(<<rx_data>>, 1, Ack(g))[1]
          /\ faulted' = (faulted \/ ~Ack(g))
    /\ Return
    /\ UNCHANGED <<cur, prev, calls, loaded, cells0, wb_locals, rd_addr, buf, byte_locals, probes,
                   current_settings>>

call_eeprom_read_byte ==
    \E a \in ByteAddrs :
        /\ Begin("eeprom_read_byte", a, <<>>, 1)
        /\ CallFrame(0, <<>>, a, <<>>, 0, 0)
        /\ pc' = "rbyte_addr"
        /\ stack' = <<"idle">>
        /\ UNCHANGED <<current_settings, device>>

\* the write made whatever was read
UpdateDecide_blind(old_val) ==
    /\ mem_addr' = rd_addr
    /\ wr_val' = new_val
    /\ pc' = "wbyte"
    /\ UNCHANGED stack

\* the write never made
UpdateDecide_skip(old_val) ==
    /\ Return
    /\ UNCHANGED <<mem_addr, wr_val>>

\* old_val = eeprom_read_byte(addr) has returned: write only on a change
UpdateDecide(old_val) ==
    IF old_val # new_val
    THEN /\ mem_addr' = rd_addr
         /\ wr_val' = new_val
         /\ pc' = "wbyte"
         /\ UNCHANGED stack
    ELSE /\ Return
         /\ UNCHANGED <<mem_addr, wr_val>>

eeprom_update_byte ==
    /\ pc = "upd_cmp"
    /\ UpdateDecide(rx_data)
    /\ UNCHANGED <<cur, prev, calls, loaded, cells0, wb_locals, rd_locals, new_val, dummy, probes,
                   current_settings, bus, faulted, device>>

call_eeprom_update_byte ==
    \E a \in ByteAddrs, v \in ByteVals :
        /\ Begin("eeprom_update_byte", a, <<v>>, 1)
        /\ CallFrame(0, <<>>, a, <<>>, 0, v)
        /\ pc' = "rbyte_addr"
        /\ stack' = <<"upd_cmp", "idle">>
        /\ UNCHANGED <<current_settings, device>>

\* ------------------------------------------------------------------------
\* settings_save, settings_init
\* ------------------------------------------------------------------------
\* the record without its last byte
SavedBytes_without_checksum(s) == SubSeq(s, 1, SizeofSystemSettings - 1)

\* the bytes settings_save hands to eeprom_write_buffer: sizeof(SystemSettings)
\* bytes from the start of the record
SavedBytes(s) == SubSeq(s, 1, SizeofSystemSettings)

\* the checksum is stored in the record, then the record is written
settings_save ==
    /\ pc = "save"
    /\ current_settings' = WithChecksum(current_settings)
    /\ addr' = SETTINGS_ADDR
    /\ data' = SavedBytes(current_settings')
    /\ offset' = 0
    /\ remaining_len' = Len(data')
    /\ pc' = "wb_loop"
    /\ UNCHANGED <<stack, cur, prev, calls, loaded, cells0, rd_locals, byte_locals, probes, bus,
                   faulted, device>>

\* the application changes a field of the loaded settings in memory; nothing
\* is written until it calls settings_save
set_volume ==
    /\ pc = "idle"
    /\ calls < MaxCalls
    /\ ~faulted
    /\ cur.op = "settings_init" \/ (loaded /\ cur.op = "settings_save")
    /\ volume(current_settings) # AppVolume
    /\ current_settings' = [current_settings EXCEPT ![SizeofSystemSettings - 1] = AppVolume]
    /\ cur' = [op |-> "set_volume", a |-> 0, d |-> <<AppVolume>>, n |-> 1]
    /\ prev' = [call |-> cur, faulted |-> faulted]
    /\ loaded' = TRUE
    /\ cells0' = cells
    /\ bus' = <<>>
    /\ UNCHANGED <<pc, stack, calls, wb_locals, rd_locals, byte_locals, probes,
                   faulted, device>>

call_settings_save ==
    /\ Begin("settings_save", SETTINGS_ADDR, <<>>, SizeofSystemSettings)
    /\ CallFrame(0, <<>>, 0, <<>>, 0, 0)
    /\ pc' = "save"
    /\ stack' = <<"idle">>
    /\ UNCHANGED <<current_settings, device>>

\* the check of the magic alone
NeedsRepair_magic_only(s) == magic(s) # MAGIC_CODE

\* the record read is valid iff both the magic and the checksum match
NeedsRepair(s) == magic(s) # MAGIC_CODE \/ checksum(s) # calc_checksum(s)

\* eeprom_read_buffer has filled current_settings: check it, repair it
settings_init_check ==
    /\ pc = "init_check"
    /\ IF NeedsRepair(buf)
       THEN /\ current_settings' = LoadDefaults(buf)
            /\ pc' = "save"
            /\ UNCHANGED stack
       ELSE /\ current_settings' = buf
            /\ Return
    /\ UNCHANGED <<cur, prev, calls, loaded, cells0, wb_locals, rd_locals, byte_locals, probes, bus,
                   faulted, device>>

\* eeprom_read_buffer(SETTINGS_ADDR, &current_settings, sizeof(SystemSettings))
call_settings_init ==
    /\ Begin("settings_init", SETTINGS_ADDR, <<>>, SizeofSystemSettings)
    /\ CallFrame(0, <<>>, SETTINGS_ADDR, current_settings, 0, 0)
    /\ pc' = "rb_addr"
    /\ stack' = <<"init_check", "idle">>
    /\ UNCHANGED <<current_settings, device>>

\* ------------------------------------------------------------------------
\* The device's own steps
\* ------------------------------------------------------------------------
\* the internal write cycle ends
WriteCycleDone ==
    /\ busy
    /\ present
    /\ busy' = FALSE
    /\ UNCHANGED <<driver, cells, fill, dev_ptr, present, noisy>>

\* the device stops responding for good while the driver waits for it
DeviceFail ==
    /\ present
    /\ pc = "wait_ready"
    /\ busy
    /\ present' = FALSE
    /\ UNCHANGED <<driver, cells, fill, dev_ptr, busy, noisy>>

\* ------------------------------------------------------------------------
\* Initial state
\* ------------------------------------------------------------------------
Zeros(n) == [i \in 1..n |-> 0]

\* a stored record: motor_offset 7, the magic, "Home", volume 30
SampleRecord ==
    WithChecksum([i \in 1..SizeofSystemSettings |->
        IF i = 1 THEN 7
        ELSE IF i = 5 THEN MAGIC_CODE % 256
        ELSE IF i = 6 THEN MAGIC_CODE \div 256
        ELSE IF i \in 7..10 THEN <<72, 111, 109, 101>>[i - 6]
        ELSE IF i = 39 THEN 30
        ELSE 0])

BadSumRecord == [SampleRecord EXCEPT ![SizeofSystemSettings] = (@ + 1) % 256]
BadMagicRecord == WithChecksum([SampleRecord EXCEPT ![5] = 0])

Image(s) == [a \in SETTINGS_ADDR..(SETTINGS_ADDR + Len(s) - 1) |-> s[(a - SETTINGS_ADDR) + 1]]

\* a blank device (erased, or zeroed), a valid record, two corrupt records
InitialDevice == {<<Image(<<>>), 255>>, <<Image(<<>>), 0>>, <<Image(SampleRecord), 255>>,
                  <<Image(BadSumRecord), 255>>, <<Image(BadMagicRecord), 255>>}

InitDriverDevice ==
    /\ pc = "idle"
    /\ stack = <<>>
    /\ cur = NoCall
    /\ prev = [call |-> NoCall, faulted |-> FALSE]
    /\ calls = 0
    /\ loaded = FALSE
    /\ addr = 0
    /\ data = <<>>
    /\ offset = 0
    /\ remaining_len = 0
    /\ rd_addr = 0
    /\ buf = <<>>
    /\ mem_addr = 0
    /\ wr_val = 0
    /\ rx_data = 0
    /\ new_val = 0
    /\ probes = 0
    /\ dummy = 0
    /\ current_settings = Zeros(SizeofSystemSettings)
    /\ bus = <<>>
    /\ faulted = FALSE
    /\ \E dev \in InitialDevice : cells = dev[1] /\ fill = dev[2]
    /\ cells0 = cells
    /\ dev_ptr = 0
    /\ busy = FALSE
    /\ present = TRUE

Init == InitDriverDevice /\ noisy = FALSE

InitFault == InitDriverDevice /\ noisy = TRUE

Next ==
    \/ call_eeprom_write_buffer
    \/ eeprom_write_buffer_loop
    \/ eeprom_write_buffer_advance
    \/ eeprom_wait_ready
    \/ call_eeprom_read_buffer
    \/ eeprom_read_buffer_addr
    \/ eeprom_read_buffer_read
    \/ call_eeprom_write_byte
    \/ eeprom_write_byte
    \/ call_eeprom_read_byte
    \/ eeprom_read_byte_addr
    \/ eeprom_read_byte_read
    \/ call_eeprom_update_byte
    \/ eeprom_update_byte
    \/ set_volume
    \/ call_settings_save
    \/ settings_save
    \/ call_settings_init
    \/ settings_init_check
    \/ WriteCycleDone
    \/ DeviceFail

Spec == Init /\ [][Next]_vars

\* eeprom_write_buffer alone, with the device: the calls of the function,
\* its steps, and the device's own steps
NextWrite ==
    \/ call_eeprom_write_buffer
    \/ eeprom_write_buffer_loop
    \/ eeprom_write_buffer_advance
    \/ eeprom_wait_ready
    \/ WriteCycleDone
    \/ DeviceFail

\* the steps of eeprom_write_buffer in progress: the processor keeps
\* executing it
DriverStep ==
    \/ eeprom_write_buffer_loop
    \/ eeprom_write_buffer_advance
    \/ eeprom_wait_ready

\* a blank device, erased or zeroed
InitBlank == Init /\ cells = Image(<<>>)

\* eeprom_write_buffer on a processor that keeps running and a device whose
\* write cycle ends
SpecLive ==
    InitBlank /\ [][NextWrite]_vars /\ WF_vars(DriverStep) /\ WF_vars(WriteCycleDone)

\* the same program on a bus whose transfers can fail
SpecFault == InitFault /\ [][Next]_vars
\* ------------------------------------------------------------------------
\* Reading the record of transactions
\* ------------------------------------------------------------------------
Returned == pc = "idle" /\ cur.op # "none"

\* a write transaction that carries data bytes after the two address bytes
IsDataWrite(t) == t.rw = "W" /\ t.n >= 3
\* the dummy write of a read: the two address bytes alone
IsAddrWrite(t) == t.rw = "W" /\ t.n = 2
\* the probe of the ready barrier: a single byte
IsProbe(t) == t.rw = "W" /\ t.n = 1
IsRead(t) == t.rw = "R"

\* the memory address a transaction carries, and its data bytes
TxAddr(t) == (t.bytes[1] * 256) + t.bytes[2]
Payload(t) == SubSeq(t.bytes, 3, Len(t.bytes))

DataWrites == SelectSeq(bus, IsDataWrite)

RECURSIVE Concat(_)
Concat(ts) == IF ts = <<>> THEN <<>> ELSE Payload(Head(ts)) \o Concat(Tail(ts))

RECURSIVE PayloadLens(_)
PayloadLens(ts) == IF ts = <<>> THEN <<>> ELSE <<Len(Payload(Head(ts)))>> \o PayloadLens(Tail(ts))

\* the cell at address a when the current call was made
Cell0(a) == IF a \in DOMAIN cells0 THEN cells0[a] ELSE fill

RangeCall == cur.op \in {"eeprom_write_buffer", "eeprom_read_buffer",
                         "eeprom_write_byte", "eeprom_read_byte"}
OutOfRange == cur.a + cur.n > CAPACITY

\* ------------------------------------------------------------------------
\* C1: a read or write call whose offset + length exceeds CAPACITY issues
\* no bus transaction and changes no cell of the device.
\* ------------------------------------------------------------------------
C1_OutOfRangeRejected ==
    (RangeCall /\ OutOfRange) => (bus = <<>> /\ cells = cells0)

\* ------------------------------------------------------------------------
\* C2: no write transaction crosses a page boundary: its data byte count
\* never exceeds PAGE_SIZE - (a mod PAGE_SIZE), a the address it carries.
\* ------------------------------------------------------------------------
C2_WritesStayInPage ==
    \A i \in DOMAIN bus :
        IsDataWrite(bus[i]) =>
            Len(Payload(bus[i])) <= PAGE_SIZE - (TxAddr(bus[i]) % PAGE_SIZE)

\* a buffer write has filled the rest of its first page, then a whole page
C2_Witness ==
    /\ cur.op = "eeprom_write_buffer"
    /\ Len(DataWrites) >= 2
    /\ Len(Payload(DataWrites[1])) = PAGE_SIZE - (cur.a % PAGE_SIZE)
    /\ Len(Payload(DataWrites[2])) = PAGE_SIZE

\* ------------------------------------------------------------------------
\* C3: round trip: eeprom_write_buffer(offset, data) followed by
\* eeprom_read_buffer(offset, len(data)), both in range and without a bus
\* fault, returns exactly data.
\* ------------------------------------------------------------------------
RoundTrip ==
    /\ Returned
    /\ cur.op = "eeprom_read_buffer"
    /\ prev.call.op = "eeprom_write_buffer"
    /\ prev.call.a = cur.a
    /\ prev.call.n = cur.n
    /\ cur.a + cur.n <= CAPACITY
    /\ ~faulted
    /\ ~prev.faulted

C3_RoundTrip == RoundTrip => buf = prev.call.d

\* a round trip over three pages
C3_Witness == RoundTrip /\ cur.n = MaxLen /\ cur.n > PAGE_SIZE /\ buf = Data(MaxLen)

\* ------------------------------------------------------------------------
\* C4: the write transactions of eeprom_write_buffer(offset, data), in
\* order: the first carries min(len, P - offset mod P) bytes at offset,
\* each later one starts on a page boundary and carries min(remaining, P)
\* bytes, the k-th address is offset plus the bytes already sent, and the
\* payloads concatenated are data.  offset P - 2, length 5 gives two
\* transactions of 2 and 3 bytes; (60, [1..6]) gives (60, [1,2,3,4]) then
\* (64, [5,6]).
\* ------------------------------------------------------------------------
RECURSIVE SentBefore(_, _)
SentBefore(ts, k) == IF k = 1 THEN 0 ELSE SentBefore(ts, k - 1) + Len(Payload(ts[k - 1]))

WriteSequenceOf(ts, a, d) ==
    /\ Concat(ts) = d
    /\ (Len(d) = 0) <=> (ts = <<>>)
    /\ \A k \in DOMAIN ts :
          /\ TxAddr(ts[k]) = a + SentBefore(ts, k)
          /\ k = 1 => Len(Payload(ts[k])) = Min(Len(d), PAGE_SIZE - (a % PAGE_SIZE))
          /\ k > 1 => /\ TxAddr(ts[k]) % PAGE_SIZE = 0
                      /\ Len(Payload(ts[k])) = Min(Len(d) - SentBefore(ts, k), PAGE_SIZE)

C4_WriteSequence ==
    (Returned /\ cur.op = "eeprom_write_buffer" /\ ~OutOfRange) =>
        /\ WriteSequenceOf(DataWrites, cur.a, cur.d)
        /\ (cur.a = PAGE_SIZE - 2 /\ cur.n = 5) => PayloadLens(DataWrites) = <<2, 3>>
        /\ (cur.a = 60 /\ cur.d = <<1, 2, 3, 4, 5, 6>>) =>
              /\ Len(DataWrites) = 2
              /\ TxAddr(DataWrites[1]) = 60 /\ Payload(DataWrites[1]) = <<1, 2, 3, 4>>
              /\ TxAddr(DataWrites[2]) = 64 /\ Payload(DataWrites[2]) = <<5, 6>>

\* write_buffer(60, [1,2,3,4,5,6]) has returned
C4_Witness ==
    /\ Returned
    /\ cur.op = "eeprom_write_buffer"
    /\ cur.a = 60
    /\ cur.d = <<1, 2, 3, 4, 5, 6>>
    /\ Len(DataWrites) = 2

\* ------------------------------------------------------------------------
\* C5: the driver issues no data write and no read while the device is in
\* the write cycle its previous write started: the device is busy only
\* while the driver is inside eeprom_wait_ready, so neither the next chunk
\* nor the return to the caller happens before the barrier is passed.
\* ------------------------------------------------------------------------
C5_ReadyBarrier ==
    /\ busy => pc = "wait_ready"
    /\ \A i \in DOMAIN bus : ~IsProbe(bus[i]) => ~bus[i].during

\* the barrier of the second chunk holds the driver while the device is busy
C5_Witness ==
    /\ pc = "wait_ready"
    /\ busy
    /\ probes = MaxProbes
    /\ Len(DataWrites) = 2
\* ------------------------------------------------------------------------
\* C6: the ready barrier has no retry bound: once the device has stopped
\* acknowledging after a write transaction, the driver is inside
\* eeprom_wait_ready, its next probe is always due, and the enclosing
\* write operation has not returned, whatever the number of failed probes.
\* ------------------------------------------------------------------------
C6_WaitsForever ==
    ~present => /\ pc = "wait_ready"
                /\ ~Returned
                /\ ENABLED eeprom_wait_ready

\* settings_save hangs on a dead device with its probe count saturated
C6_Witness ==
    /\ ~present
    /\ cur.op = "settings_save"
    /\ pc = "wait_ready"
    /\ probes = MaxProbes

\* ------------------------------------------------------------------------
\* C7: a failed transaction of a read or write operation is fatal to it:
\* after a data or address transaction that was not acknowledged the
\* operation issues no further data, address or read transaction.
\* ------------------------------------------------------------------------
C7_BusErrorIsFatal ==
    \A i \in DOMAIN bus : \A j \in DOMAIN bus :
        (i < j /\ ~IsProbe(bus[i]) /\ ~bus[i].ack) => IsProbe(bus[j])

\* ------------------------------------------------------------------------
\* C8: eeprom_update_byte reads addr before any write, issues no write
\* transaction when the stored value equals new_val, exactly one when it
\* differs.
\* ------------------------------------------------------------------------
StoredByte == Cell0(cur.a % CAPACITY)

C8_UpdateByte ==
    (cur.op = "eeprom_update_byte" /\ ~faulted) =>
        /\ \A i \in DOMAIN bus :
              IsDataWrite(bus[i]) =>
                  /\ i >= 3
                  /\ IsAddrWrite(bus[1]) /\ TxAddr(bus[1]) = cur.a
                  /\ IsRead(bus[2])
        /\ Returned =>
              Len(DataWrites) = (IF StoredByte = cur.d[1] THEN 0 ELSE 1)

\* the value is already stored (a write_byte put it there): nothing written
C8_Witness ==
    /\ Returned
    /\ cur.op = "eeprom_update_byte"
    /\ prev.call.op = "eeprom_write_byte"
    /\ prev.call.a = cur.a
    /\ StoredByte = cur.d[1]
    /\ cur.d[1] = 171
    /\ Len(bus) = 2

\* ------------------------------------------------------------------------
\* C9: settings_init on a stored record with the right magic and checksum
\* returns every stored field unchanged and writes nothing; it repairs
\* (writes) if and only if the magic or the checksum is wrong.
\* ------------------------------------------------------------------------
\* the 40 bytes stored at SETTINGS_ADDR when the call was made
StoredRecord == [i \in 1..SizeofSystemSettings |-> Cell0((SETTINGS_ADDR + i) - 1)]

RECURSIVE SumOf(_)
SumOf(s) == IF s = <<>> THEN 0 ELSE Head(s) + SumOf(Tail(s))

\* valid as the specification words it: the magic marker is the constant
\* and the last byte is the 8-bit sum of the bytes before it
StoredValid ==
    /\ StoredRecord[5] = 90 /\ StoredRecord[6] = 165
    /\ StoredRecord[SizeofSystemSettings]
          = SumOf(SubSeq(StoredRecord, 1, SizeofSystemSettings - 1)) % 256

InitReturned == Returned /\ cur.op = "settings_init" /\ ~faulted

C9_LoadValid ==
    InitReturned =>
        /\ StoredValid => (current_settings = StoredRecord /\ DataWrites = <<>>)
        /\ (DataWrites # <<>>) <=> ~StoredValid

\* the sample record is loaded as it is stored
C9_Witness ==
    /\ InitReturned
    /\ StoredValid
    /\ current_settings = SampleRecord
    /\ Len(bus) = 2

\* ------------------------------------------------------------------------
\* C10: settings_init on an all-zero, wrong-magic or wrong-checksum region
\* returns the defaults (magic MAGIC_CODE, identifier "MyWifi", volume 50,
\* calibration offset 0) and saves once: a single write transaction of
\* sizeof(SystemSettings) bytes at SETTINGS_ADDR.
\* ------------------------------------------------------------------------
C10_LoadCorrupt ==
    (InitReturned /\ ~StoredValid) =>
        /\ magic(current_settings) = MAGIC_CODE
        /\ SubSeq(current_settings, 7, 13) = <<77, 121, 87, 105, 102, 105, 0>>
        /\ volume(current_settings) = 50
        /\ motor_offset(current_settings) = <<0, 0, 0, 0>>
        /\ Len(DataWrites) = 1
        /\ TxAddr(DataWrites[1]) = SETTINGS_ADDR
        /\ Len(Payload(DataWrites[1])) = SizeofSystemSettings
        /\ Payload(DataWrites[1]) = current_settings

\* an all-zero region has been replaced by the defaults
C10_Witness ==
    /\ InitReturned
    /\ StoredRecord = Zeros(SizeofSystemSettings)
    /\ Len(DataWrites) = 1
    /\ volume(current_settings) = 50

\* the record the device holds now
DeviceRecord == [i \in 1..SizeofSystemSettings |-> Cell((SETTINGS_ADDR + i) - 1)]

DeviceValid ==
    /\ DeviceRecord[5] = 90 /\ DeviceRecord[6] = 165
    /\ DeviceRecord[SizeofSystemSettings]
          = SumOf(SubSeq(DeviceRecord, 1, SizeofSystemSettings - 1)) % 256

\* what settings_init leaves when the stored region is all zero
ZeroFallback == WithChecksum(LoadDefaults(Zeros(SizeofSystemSettings)))

\* ------------------------------------------------------------------------
\* C11: the fallback to defaults is deterministic: whatever the corrupt
\* stored region holds, settings_init leaves the same serialized record in
\* memory and on the device, with the same checksum - so the same record
\* as for the all-zero region, which is one of the corrupt regions.
\* ------------------------------------------------------------------------
C11_FallbackDeterministic ==
    (InitReturned /\ ~StoredValid) =>
        /\ current_settings = ZeroFallback
        /\ DeviceRecord = ZeroFallback
        /\ checksum(current_settings) = checksum(ZeroFallback)

\* ------------------------------------------------------------------------
\* C12: calc_checksum of a record is the sum modulo 256 of its serialized
\* bytes at positions 0 .. sizeof(SystemSettings)-2, and changing the last
\* byte (the checksum byte) does not change it.  Checked on the records
\* the program applies calc_checksum to: the record settings_init has read,
\* the record settings_save is about to write, the record they leave.
\* ------------------------------------------------------------------------
ChecksumBytes(s) == {0, 255, (s[SizeofSystemSettings] + 1) % 256}

ChecksumIsSum(s) ==
    /\ calc_checksum(s) = SumOf(SubSeq(s, 1, SizeofSystemSettings - 1)) % 256
    /\ \A b \in ChecksumBytes(s) :
           calc_checksum([s EXCEPT ![SizeofSystemSettings] = b]) = calc_checksum(s)

C12_ChecksumIsSum ==
    /\ pc = "init_check" => ChecksumIsSum(buf)
    /\ pc = "save" => ChecksumIsSum(current_settings)
    /\ (Returned /\ cur.op \in SettingsOps) => ChecksumIsSum(current_settings)

\* settings_save has stored the checksum of the defaults, a sum that exceeds
\* one byte
C12_Witness ==
    /\ InitReturned
    /\ ~StoredValid
    /\ SumOf(SubSeq(current_settings, 1, SizeofSystemSettings - 1)) > 255
    /\ checksum(current_settings) = calc_checksum(current_settings)
    /\ checksum(current_settings) # 0

\* ------------------------------------------------------------------------
\* C13: when settings_init has returned on a bus without faults the record
\* stored at SETTINGS_ADDR is valid (magic MAGIC_CODE, checksum matching),
\* whether it was valid or corrupt before; during and after every later
\* settings_save and settings_init it stays valid; and a settings_init
\* that follows issues no write.
\* ------------------------------------------------------------------------
C13_RecordStaysValid ==
    /\ InitReturned => DeviceValid
    /\ (loaded /\ ~faulted /\ cur.op \in {"settings_save", "settings_init"}) =>
           /\ DeviceValid
           /\ cur.op = "settings_init" => DataWrites = <<>>

\* the settings were loaded, the volume changed in memory and saved
C13_Witness ==
    /\ Returned
    /\ loaded
    /\ cur.op = "settings_save"
    /\ prev.call.op = "set_volume"
    /\ volume(DeviceRecord) = AppVolume
    /\ Len(DataWrites) = 1
    /\ DeviceValid

\* ------------------------------------------------------------------------
\* C14: settings_save overwrites only the checksum field of the record in
\* memory, with the recomputed checksum, and writes the whole record: when
\* it has returned the sizeof(SystemSettings) device bytes from
\* SETTINGS_ADDR are the bytes of the record in memory, and the last
\* stored byte is the sum modulo 256 of the stored bytes before it.
\* ------------------------------------------------------------------------
FieldsBeforeChecksum(s) == SubSeq(s, 1, SizeofSystemSettings - 1)

\* settings_save has run, called by the application or by settings_init
SaveReturned ==
    /\ Returned
    /\ ~faulted
    /\ cur.op = "settings_save" \/ (cur.op = "settings_init" /\ DataWrites # <<>>)

SaveStep ==
    /\ pc = "save" =>
          /\ FieldsBeforeChecksum(current_settings') = FieldsBeforeChecksum(current_settings)
          /\ checksum(current_settings') = SumOf(FieldsBeforeChecksum(current_settings)) % 256
    /\ pc \in {"wb_loop", "wb_advance", "wait_ready"} => current_settings' = current_settings

C14_SaveWritesRecord ==
    /\ [][SaveStep]_vars
    /\ [](SaveReturned =>
            /\ DeviceRecord = current_settings
            /\ DeviceRecord[SizeofSystemSettings]
                  = SumOf(FieldsBeforeChecksum(DeviceRecord)) % 256)

\* a changed volume has been saved with a new checksum
C14_Witness ==
    /\ SaveReturned
    /\ cur.op = "settings_save"
    /\ prev.call.op = "set_volume"
    /\ DeviceRecord = current_settings
    /\ checksum(DeviceRecord) # checksum(StoredRecord)
    /\ FieldsBeforeChecksum(DeviceRecord) # FieldsBeforeChecksum(StoredRecord)

\* ------------------------------------------------------------------------
\* C15: eeprom_read_buffer(addr, len) (and eeprom_read_byte, with len 1)
\* issues exactly two bus transactions whatever len is, page boundaries or
\* not: a write of exactly the 2 address bytes that keeps the bus (no
\* stop), then, with nothing between, one read of len bytes that releases
\* it.
\* ------------------------------------------------------------------------
ReadCall == cur.op \in {"eeprom_read_buffer", "eeprom_read_byte"}

C15_ReadIsTwoTransactions ==
    ReadCall =>
        /\ Len(bus) <= 2
        /\ Returned => Len(bus) = 2
        /\ Len(bus) >= 1 =>
              /\ bus[1].rw = "W"
              /\ bus[1].bytes = <<(cur.a \div 256) % 256, cur.a % 256>>
              /\ bus[1].nostop
        /\ Len(bus) = 2 =>
              /\ bus[2].rw = "R"
              /\ bus[2].n = cur.n
              /\ ~bus[2].nostop

\* a read over three pages has returned after its two transactions
C15_Witness ==
    /\ Returned
    /\ cur.op = "eeprom_read_buffer"
    /\ cur.a \div PAGE_SIZE < ((cur.a + cur.n) - 1) \div PAGE_SIZE
    /\ cur.n > PAGE_SIZE
    /\ Len(bus) = 2
    /\ bus[2].n = cur.n
    /\ Len(buf) = cur.n

\* the data bytes the transactions before the i-th of this call have carried
RECURSIVE DataSentBefore(_)
DataSentBefore(i) ==
    IF i = 1 THEN 0
    ELSE DataSentBefore(i - 1)
            + (IF IsDataWrite(bus[i - 1]) THEN Len(Payload(bus[i - 1])) ELSE 0)

\* the memory offset the i-th transaction of this call is about
OffsetOf(i) == U16(cur.a + DataSentBefore(i))

\* the frame starts with the offset as two bytes, the high byte first
CarriesOffset(i) ==
    /\ Len(bus[i].bytes) >= 2
    /\ bus[i].bytes[1] = OffsetOf(i) \div 256
    /\ bus[i].bytes[2] = OffsetOf(i) % 256
    /\ (bus[i].bytes[1] * 256) + bus[i].bytes[2] = OffsetOf(i)

\* ------------------------------------------------------------------------
\* C16 as stated: every write transaction the driver sends - page writes,
\* byte writes, the dummy address writes of reads and the probes of the
\* ready barrier - carries its 16-bit memory offset as two bytes, the high
\* byte first.
\* ------------------------------------------------------------------------
C16_EveryFrameCarriesOffset ==
    \A i \in DOMAIN bus : bus[i].rw = "W" => CarriesOffset(i)

\* ------------------------------------------------------------------------
\* C16 amended: every page write, byte write and dummy address write
\* carries its 16-bit memory offset as two bytes, the high byte first; a
\* probe of the ready barrier carries no offset: it is a single byte, the
\* content of eeprom_wait_ready's dummy.
\* ------------------------------------------------------------------------
C16_DataFramesCarryOffset ==
    \A i \in DOMAIN bus :
        bus[i].rw = "W" =>
            IF IsProbe(bus[i]) THEN bus[i].bytes = <<dummy>> ELSE CarriesOffset(i)

\* a page write at an offset above 255 whose two address bytes differ, and
\* the probe that follows it
C16_Witness ==
    /\ cur.op = "eeprom_write_buffer"
    /\ Len(bus) >= 2
    /\ IsDataWrite(bus[1])
    /\ OffsetOf(1) > 255
    /\ OffsetOf(1) % 256 # OffsetOf(1) \div 256
    /\ CarriesOffset(1)
    /\ IsProbe(bus[2])
    /\ bus[2].bytes = <<dummy>>

\* the transactions of a one-byte write at a, acknowledged by an idle
\* device, and of a one-byte read at a
OneByteWriteBus(a, v) ==
    << [rw |-> "W", bytes |-> <<(a \div 256) % 256, a % 256, v>>, n |-> 3,
        nostop |-> FALSE, ack |-> TRUE, during |-> FALSE],
       [rw |-> "W", bytes |-> <<dummy>>, n |-> 1,
        nostop |-> FALSE, ack |-> TRUE, during |-> FALSE] >>

OneByteReadBus(a) ==
    << [rw |-> "W", bytes |-> <<(a \div 256) % 256, a % 256>>, n |-> 2,
        nostop |-> TRUE, ack |-> TRUE, during |-> FALSE],
       [rw |-> "R", bytes |-> <<>>, n |-> 1,
        nostop |-> FALSE, ack |-> TRUE, during |-> FALSE] >>

OneByteWrite ==
    \/ cur.op = "eeprom_write_byte"
    \/ cur.op = "eeprom_write_buffer" /\ cur.n = 1

OneByteRead ==
    \/ cur.op = "eeprom_read_byte"
    \/ cur.op = "eeprom_read_buffer" /\ cur.n = 1

\* what the one-byte read hands back
OneByteResult == IF cur.op = "eeprom_read_byte" THEN rx_data ELSE buf[1]

ByteRoundTrip ==
    /\ Returned
    /\ cur.op = "eeprom_read_byte"
    /\ prev.call.op = "eeprom_write_byte"
    /\ prev.call.a = cur.a
    /\ cur.a < CAPACITY
    /\ ~faulted
    /\ ~prev.faulted

\* ------------------------------------------------------------------------
\* C17: eeprom_write_byte(a, v) followed by eeprom_read_byte(a) returns v
\* for every address a in range; and the byte operations behave as the
\* buffer operations of length 1: eeprom_write_byte(a, v) and
\* eeprom_write_buffer(a, [v]) issue the same transactions (the data frame,
\* then the ready probe) and leave the same cells, eeprom_read_byte(a) and
\* eeprom_read_buffer(a, 1) issue the same transactions, return the same
\* byte and change no cell.
\* ------------------------------------------------------------------------
C17_ByteOpsAreOneByteBufferOps ==
    /\ ByteRoundTrip => rx_data = prev.call.d[1]
    /\ (Returned /\ ~faulted /\ OneByteWrite) =>
           /\ bus = OneByteWriteBus(cur.a, cur.d[1])
           /\ \A a \in DOMAIN cells \cup DOMAIN cells0 \cup {cur.a % CAPACITY} :
                  Cell(a) = (IF a = cur.a % CAPACITY THEN cur.d[1] ELSE Cell0(a))
           /\ dev_ptr = PageWrap(cur.a % CAPACITY, 1)
    /\ (Returned /\ ~faulted /\ OneByteRead) =>
           /\ bus = OneByteReadBus(cur.a)
           /\ OneByteResult = Cell0(cur.a % CAPACITY)
           /\ cells = cells0
           /\ dev_ptr = ((cur.a % CAPACITY) + 1) % CAPACITY

\* main's check: 0xAB written at the byte after the record and read back
C17_Witness ==
    /\ ByteRoundTrip
    /\ cur.a = SETTINGS_ADDR + SizeofSystemSettings
    /\ prev.call.d = <<171>>
    /\ rx_data = 171
    /\ Cell0(cur.a) = 171

\* the cells the current call is asked to write
Target == cur.a .. ((cur.a + cur.n) - 1)

\* every cell outside the target range holds what it held at the call
OthersUnchanged ==
    \A a \in DOMAIN cells \cup DOMAIN cells0 : a \notin Target => Cell(a) = Cell0(a)

\* ------------------------------------------------------------------------
\* C18: on the device that wraps writes within a page,
\* eeprom_write_buffer(offset, data) with offset + len <= CAPACITY changes
\* the cells [offset, offset + len) to data and no other cell, at any step;
\* the probes of the ready barrier change no cell; and eeprom_write_byte at
\* the address right after the settings record leaves the stored record
\* as it was, valid if it was valid.
\* ------------------------------------------------------------------------
C18_WriteFrame ==
    /\ [][pc = "wait_ready" => cells' = cells]_vars
    /\ []((cur.op = "eeprom_write_buffer" /\ ~OutOfRange /\ ~faulted) =>
            /\ OthersUnchanged
            /\ Returned => \A a \in Target : Cell(a) = cur.d[(a - cur.a) + 1])
    /\ []((cur.op = "eeprom_write_byte" /\ ~faulted
              /\ cur.a = SETTINGS_ADDR + SizeofSystemSettings) =>
            /\ OthersUnchanged
            /\ DeviceRecord = StoredRecord
            /\ StoredValid => DeviceValid)

\* after settings_init a buffer over three pages was written behind the
\* record: the record is as it was, the cells next to the range too
C18_Witness ==
    /\ Returned
    /\ cur.op = "eeprom_write_buffer"
    /\ prev.call.op = "settings_init"
    /\ cur.n > PAGE_SIZE
    /\ ~OutOfRange
    /\ Len(DataWrites) = 3
    /\ \A a \in Target : Cell(a) = cur.d[(a - cur.a) + 1]
    /\ DeviceRecord = StoredRecord
    /\ DeviceValid
    /\ Cell(cur.a - 1) = fill
    /\ Cell(cur.a + cur.n) = fill

\* the pages the range [a, a + n) touches
PagesTouched(a, n) ==
    IF n = 0 THEN 0 ELSE ((((a + n) - 1) \div PAGE_SIZE) - (a \div PAGE_SIZE)) + 1

WriteBufferRunning == cur.op = "eeprom_write_buffer" /\ pc # "idle"

\* ------------------------------------------------------------------------
\* C19: with a device that ends its write cycle and so acknowledges a
\* probe after finitely many attempts, eeprom_write_buffer(addr, data)
\* returns, for every addr and length; each pass of its loop writes a chunk
\* of at least one byte, so remaining_len strictly decreases and never
\* falls below zero; it issues as many write transactions as the range
\* touches pages; a write of length zero issues no transaction and no
\* probe.
\* ------------------------------------------------------------------------
C19_WriteBufferTerminates ==
    /\ WriteBufferRunning ~> (pc = "idle" \/ ~present)
    /\ [][pc = "wb_advance" =>
             /\ remaining_len' < remaining_len
             /\ remaining_len' >= 0
             /\ offset' + remaining_len' = Len(data)]_vars
    /\ []((cur.op = "eeprom_write_buffer" /\ pc = "wait_ready") =>
             Len(Payload(bus[Len(bus)])) >= 1)
    /\ []((Returned /\ cur.op = "eeprom_write_buffer" /\ ~faulted) =>
             Len(DataWrites) = PagesTouched(cur.a, cur.n))
    /\ []((cur.op = "eeprom_write_buffer" /\ cur.n = 0) =>
             (bus = <<>> /\ pc \in {"wb_loop", "idle"} /\ probes = 0))

\* a write over three pages has returned after three write transactions
C19_Witness ==
    /\ Returned
    /\ cur.op = "eeprom_write_buffer"
    /\ cur.n > PAGE_SIZE
    /\ remaining_len = 0
    /\ Len(DataWrites) = 3
    /\ PagesTouched(cur.a, cur.n) = 3
    /\ present

\* ------------------------------------------------------------------------
\* C20: in every call of _eeprom_write_page_raw that eeprom_write_buffer
\* makes, the chunk length is between 1 and PAGE_SIZE, so the frame of
\* the 2 address bytes and the chunk fits the transmit buffer of
\* PAGE_SIZE + 2 bytes.
\* ------------------------------------------------------------------------
WritesBuffer == cur.op \in {"eeprom_write_buffer", "settings_save", "settings_init"}

C20_FrameFitsBuffer ==
    /\ (pc = "wb_loop" /\ remaining_len > 0) =>
           /\ chunk_size(remaining_len, addr) >= 1
           /\ chunk_size(remaining_len, addr) <= PAGE_SIZE
    /\ WritesBuffer =>
           \A i \in DOMAIN bus :
               IsDataWrite(bus[i]) =>
                   /\ Len(Payload(bus[i])) >= 1
                   /\ Len(Payload(bus[i])) <= PAGE_SIZE
                   /\ bus[i].n <= PAGE_SIZE + 2

\* a frame that fills the transmit buffer: a whole page of data
C20_Witness ==
    /\ cur.op = "eeprom_write_buffer"
    /\ Len(bus) >= 3
    /\ IsDataWrite(bus[3])
    /\ bus[3].n = PAGE_SIZE + 2
    /\ Len(Payload(bus[1])) < PAGE_SIZE

UpdateReturned == Returned /\ cur.op = "eeprom_update_byte" /\ ~faulted

\* the call in progress repeats the update that has just returned
UpdateRepeated ==
    /\ cur.op = "eeprom_update_byte"
    /\ prev.call = cur
    /\ ~faulted
    /\ ~prev.faulted

\* ------------------------------------------------------------------------
\* C21: on a device and bus without faults, when eeprom_update_byte(addr, v)
\* has returned the cell at addr holds v, whatever it held before; and the
\* same call made again at once issues no write transaction and leaves
\* the device's cells as they were, with no write cycle started.
\* ------------------------------------------------------------------------
C21_UpdateIdempotent ==
    /\ UpdateReturned => Cell(cur.a % CAPACITY) = cur.d[1]
    /\ UpdateRepeated =>
           /\ DataWrites = <<>>
           /\ cells = cells0
           /\ ~busy
           /\ Returned => Len(bus) = 2

\* 0xAB was written over another value by the first call; the second call
\* has read it and returned
C21_Witness ==
    /\ Returned
    /\ UpdateRepeated
    /\ cur.a < CAPACITY
    /\ cur.d = <<171>>
    /\ Cell(cur.a) = 171
    /\ fill # 171
    /\ cur.a \in DOMAIN cells
    /\ Len(bus) = 2
====
